---- MODULE Spec2Model ----
(***************************************************************************)
(* Model of the identity service (services/identity/service.go): the       *)
(* threshold-voting propose / vote / commit protocol and the per-server    *)
(* replicated identity storage.                                            *)
(*                                                                         *)
(* One identity is modelled.  Every server of the roster holds its own     *)
(* copy of the storage.  A request is a call running on one server; it     *)
(* advances through the suspension points of its handler (propagation      *)
(* rounds, the skipchain request) and through every read it makes of the   *)
(* storage without holding the lock, so calls on the same or on different  *)
(* servers interleave.  ConfigUpdate, ProposeFetch, ProposeVote and the    *)
(* Propagate of a message other than PropagateIdentity look the storage    *)
(* up in one step and take the mutex of the storage they found in a later  *)
(* one; a storage that setIdentityStorage replaced in between is still     *)
(* the one they lock, read and write.  Propagate runs in two further       *)
(* steps where its last assignment is separated from what precedes it.     *)
(***************************************************************************)
EXTENDS Integers, FiniteSets, Sequences, TLC

(* ---------------------------- bounds ---------------------------------- *)

\* total number of requests issued in one behaviour
MaxCalls == 3

\* number of propagated messages that a roster member never applies
MaxTimeouts == 1

(* ---------------------------- universe -------------------------------- *)

Servers == {"s1", "s2"}

\* the server the client creates the identity on; the servers are alike
FirstServer == "s1"

\* requests in progress at the same time
Slots == {1, 2}

DeviceNames == {"A", "B"}

\* the public key registered for a device name
PublicKey(n) == <<"pk", n>>

DeviceMap(names) == [n \in names |-> PublicKey(n)]

NoDevices == DeviceMap({})

NilConfig == [Device |-> NoDevices, Threshold |-> 0]

Configs ==
    { [Device |-> DeviceMap({"A"}), Threshold |-> 1],
      [Device |-> DeviceMap({"A", "B"}), Threshold |-> 1],
      [Device |-> DeviceMap({"A", "B"}), Threshold |-> 3] }

\* the configs a client proposes with ProposeSend
Proposals == {cfg \in Configs : cfg.Threshold = 1}

\* the config whose digest a client signs: a signature is the one over the
\* digest of Proposed when this config is proposed, and one over another
\* digest when the other one is
SignedConfigs == {cfg \in Proposals : DOMAIN cfg.Device = {"A", "B"}}

(* ------------------- digest, signatures, encoding --------------------- *)

\* Config.Hash(): a digest that separates any two configs
Hash(cfg) == <<"H", cfg.Threshold, DOMAIN cfg.Device>>

NilHash == <<"H", 0, {}>>

\* a nil *crypto.SchnorrSig
NilSig == [key |-> <<"pk", "-">>, hash |-> NilHash]

\* the signature the holder of device n's private key produces over digest h
Sign(n, h) == [key |-> PublicKey(n), hash |-> h]

\* crypto.VerifySchnorr(suite, public, msg, sig): TRUE when err == nil
VerifySchnorr(public, h, sig) == sig.key = public /\ sig.hash = h

\* network.MarshalRegisteredType of a Config, stored as SkipBlock.Data
MarshalConfig(cfg) == <<"Config", cfg.Threshold, cfg.Device>>

\* network.UnmarshalRegistered followed by the type assertion to *Config
UnmarshalConfig(d) == [Device |-> d[3], Threshold |-> d[2]]

(* ---------------------------- storage --------------------------------- *)

NilVotes == [isnil |-> TRUE, sigs |-> [n \in {} |-> NilSig]]

EmptyVotes == [isnil |-> FALSE, sigs |-> [n \in {} |-> NilSig]]

\* len(sid.Votes)
LenVotes(v) == Cardinality(DOMAIN v.sigs)

\* sid.Votes[signer] = sig on a non-nil map
PutVote(v, signer, sig) ==
    [isnil |-> FALSE,
     sigs |-> [n \in (DOMAIN v.sigs) \cup {signer} |->
                  IF n = signer THEN sig ELSE v.sigs[n]]]

\* getIdentityStorage(id) == nil
NoStorage ==
    [has |-> FALSE, Latest |-> NilConfig, Proposed |-> NilConfig,
     Votes |-> NilVotes, Data |-> 0, Round |-> 0]

\* &storage{Latest: ai.Config} with Data set by CreateData
NewStorage(cfg, data) ==
    [has |-> TRUE, Latest |-> cfg, Proposed |-> NilConfig,
     Votes |-> NilVotes, Data |-> data, Round |-> 0]

(* ---------------------------- messages -------------------------------- *)

NoMsg ==
    [type |-> "none", Signer |-> "-", Signature |-> NilSig,
     Config |-> NilConfig, Latest |-> 0, Round |-> 0]

\* &PropagateIdentity{ids}; round is the number of the request, 0 for the
\* AddIdentity that created the genesis block
PropagateIdentity(cfg, data, round) ==
    [NoMsg EXCEPT !.type = "PropagateIdentity", !.Config = cfg,
                  !.Latest = data, !.Round = round]

\* *ProposeSend
ProposeSendMsg(cfg, round) ==
    [NoMsg EXCEPT !.type = "ProposeSend", !.Config = cfg, !.Round = round]

\* *ProposeVote
ProposeVoteMsg(signer, sig) ==
    [NoMsg EXCEPT !.type = "ProposeVote", !.Signer = signer, !.Signature = sig]

\* &UpdateSkipBlock{ID: v.ID, Latest: reply.Latest}
UpdateSkipBlock(block) ==
    [NoMsg EXCEPT !.type = "UpdateSkipBlock", !.Latest = block]

(* ---------------------------- calls ----------------------------------- *)

\* a slot with no request in progress.
\*   pending, replies  the members the propagation round still waits for and
\*                     the acknowledgements counted
\*   found             the members whose Propagate has the *storage of line
\*                     248 and has not taken its mutex yet
\*   mid               the members that are inside Propagate for the call's
\*                     message, between its two steps
\*   midold            those of found and mid whose storage was replaced
\*                     meanwhile
\*   old               the *storage the request handler holds (lines 97,
\*                     130, 147) is no longer the one in s.identities
\*   n, latest         what the handler has read of len(sid.Votes) and
\*                     sid.Latest for the test of line 181
\*   data, proposed    what the handler has read of sid.Data and sid.Proposed
\*                     for the request of line 189
\*   round             which ProposeSend had set the Proposed that was read
\*   dup               a member found the identity present at line 238
IdleCall ==
    [op |-> "none", server |-> "s1", pc |-> "idle", msg |-> NoMsg,
     pending |-> {}, replies |-> 0, found |-> {}, mid |-> {},
     midold |-> {},
     old |-> FALSE, n |-> 0, latest |-> NilConfig, data |-> 0,
     proposed |-> NilConfig, round |-> 0, dup |-> FALSE]

\* what a request returned: the error or success, the block reference
\* (ProposeVote, AddIdentity) and the config (ConfigUpdate, ProposeFetch)
NoReply == [op |-> "none", result |-> "none", ret |-> 0, out |-> NilConfig]

VARIABLES
    identities,   \* Service.identities[id] of every server
    orphans,      \* the storage of a server that setIdentityStorage replaced
    locked,       \* the mutex of every server's storage is held: cur for the
                  \* storage in s.identities, old for the replaced one
    crashed,      \* servers whose process panicked
    calls,        \* the requests in progress, one per slot
    ledger,       \* the data skipchain: the blocks appended so far
    started,      \* number of requests issued so far
    last,         \* the reply of the request that returned most recently
    lost,         \* number of propagated messages a member never applied
    known         \* AddIdentity has returned the identity's ID to a client

vars ==
    <<identities, orphans, locked, crashed, calls, ledger, started, last,
      lost, known>>

Init ==
    /\ identities = [s \in Servers |-> NoStorage]
    /\ orphans = [s \in Servers |-> NoStorage]
    /\ locked = [s \in Servers |-> [cur |-> FALSE, old |-> FALSE]]
    /\ crashed = [s \in Servers |-> FALSE]
    /\ calls = [c \in Slots |-> IdleCall]
    /\ ledger = << >>
    /\ started = 0
    /\ last = NoReply
    /\ lost = 0
    /\ known = FALSE

(* ---------------------------- ledger ---------------------------------- *)

\* the SkipBlock a reference stands for
Block(ref) == ledger[ref]

\* skipchain.CreateData: the genesis data block holding the first config
GenesisBlock(cfg) == [prev |-> 0, data |-> MarshalConfig(cfg), round |-> 0]

\* skipchain.ProposeData(root, latest, data): the block appended after
\* latest; round remembers which ProposeSend had set the config
ProposeData(latest, data, round) ==
    [prev |-> latest, data |-> MarshalConfig(data), round |-> round]

(* ----------------------- ProposeVote: validation ---------------------- *)

\* Validate without the test of lines 164-166
Validate_NoDuplicateTest(sid, signer, sig) ==
    IF sid.Proposed = NilConfig THEN "panic"
    ELSE IF signer \notin DOMAIN sid.Latest.Device THEN "SignerUnknown"
    ELSE IF /\ sig # NilSig
            /\ ~VerifySchnorr(sid.Latest.Device[signer],
                              Hash(sid.Proposed), sig)
         THEN "BadSignature"
    ELSE "ok"

\* Validate without the verification of lines 168-173
Validate_NoVerify(sid, signer, sig) ==
    IF sid.Proposed = NilConfig THEN "panic"
    ELSE IF signer \notin DOMAIN sid.Latest.Device THEN "SignerUnknown"
    ELSE IF signer \in DOMAIN sid.Votes.sigs THEN "DuplicateVote"
    ELSE "ok"

\* The locked section of ProposeVote (lines 151-174): the outcome of the
\* checks, in the order the code makes them.
Validate(sid, signer, sig) ==
    IF sid.Proposed = NilConfig THEN "panic"
    ELSE IF signer \notin DOMAIN sid.Latest.Device THEN "SignerUnknown"
    ELSE IF signer \in DOMAIN sid.Votes.sigs THEN "DuplicateVote"
    ELSE IF /\ sig # NilSig
            /\ ~VerifySchnorr(sid.Latest.Device[signer],
                              Hash(sid.Proposed), sig)
         THEN "BadSignature"
    ELSE "ok"

\* the test of line 181 with > for >=
MeetsThreshold_Strict(n, latest) == n > latest.Threshold

\* line 181: len(sid.Votes) >= sid.Latest.Threshold, n being the length and
\* latest the config that were read
MeetsThreshold(n, latest) == n >= latest.Threshold

\* line 182: len(sid.Votes) == len(sid.Latest.Device)
AllVoted(n, latest) == n = Cardinality(DOMAIN latest.Device)

\* the condition of lines 181-182 evaluated on one state of the storage
Quorum(sid) ==
    \/ MeetsThreshold(LenVotes(sid.Votes), sid.Latest)
    \/ AllVoted(LenVotes(sid.Votes), sid.Latest)

(* ----------------------- Propagate (every replica) -------------------- *)

\* sid.Votes[v.Signer] = v.Signature on a map that was never made
PropagatePanics(sid, msg) ==
    sid.has /\ msg.type = "ProposeVote" /\ sid.Votes.isnil

\* Propagate whose UpdateSkipBlock case takes the new Latest from Proposed
\* instead of decoding it from the block
Propagate_LatestFromProposed(sid, msg) ==
    IF msg.type = "PropagateIdentity" \/ ~sid.has THEN sid
    ELSE IF msg.type = "ProposeSend"
    THEN [sid EXCEPT !.Proposed = msg.Config, !.Votes = EmptyVotes,
                     !.Round = msg.Round]
    ELSE IF msg.type = "ProposeVote"
    THEN [sid EXCEPT !.Votes = PutVote(@, msg.Signer, msg.Signature)]
    ELSE IF msg.type = "UpdateSkipBlock"
    THEN [sid EXCEPT !.Data = msg.Latest, !.Latest = sid.Proposed]
    ELSE sid

\* Service.Propagate(msg) on a server whose storage is sid, lines 225-276:
\* all of it but the last assignment of the handler.  For PropagateIdentity
\* this is the test of line 238, which assigns nothing; for UpdateSkipBlock
\* it is sid.Data and sid.Latest (lines 275-276).
Propagate(sid, msg) ==
    IF msg.type = "PropagateIdentity" \/ ~sid.has THEN sid
    ELSE IF msg.type = "ProposeSend"
    THEN [sid EXCEPT !.Proposed = msg.Config, !.Votes = EmptyVotes,
                     !.Round = msg.Round]
    ELSE IF msg.type = "ProposeVote"
    THEN [sid EXCEPT !.Votes = PutVote(@, msg.Signer, msg.Signature)]
    ELSE IF msg.type = "UpdateSkipBlock"
    THEN [sid EXCEPT !.Data = msg.Latest,
                     !.Latest = UnmarshalConfig(Block(msg.Latest).data)]
    ELSE sid

\* the handler has a last assignment to make after Propagate(sid, msg):
\* setIdentityStorage (line 243) when line 238 found no storage, and
\* sid.Proposed = nil (line 277)
TwoSteps(sid, msg) ==
    \/ msg.type = "PropagateIdentity" /\ ~sid.has
    \/ msg.type = "UpdateSkipBlock" /\ sid.has

\* the last assignment of the handler: line 243, whatever s.identities holds
\* by now, and line 277
PropagateEnd(sid, msg) ==
    IF msg.type = "PropagateIdentity"
    THEN NewStorage(msg.Config, msg.Latest)
    ELSE [sid EXCEPT !.Proposed = NilConfig]

(* ---------------------------- requests -------------------------------- *)

\* a request is taken up by the first free slot of a server that runs
CanStart(c, s) ==
    /\ calls[c].pc = "idle"
    /\ \A d \in Slots : d < c => calls[d].pc # "idle"
    /\ ~crashed[s]

\* a request for the identity: its ID (the hash of the genesis data block)
\* is what AddIdentity returned
CanRequest(c, s) ==
    /\ CanStart(c, s)
    /\ known
    /\ started < MaxCalls

\* the reply of a request that returns
Reply(op, result, ret, out) ==
    [op |-> op, result |-> result, ret |-> ret, out |-> out]

\* the call waits in manage.PropagateStartAndWait(roster, msg)
Propagating(op, s, msg) ==
    [IdleCall EXCEPT !.op = op, !.server = s, !.pc = "propagate",
                     !.msg = msg, !.pending = Servers]

\* manage.PropagateStartAndWait returned an error: the round never started
PropagateError(op) == Reply(op, "PropagateError", 0, NilConfig)

\* the propagation round of call c is over
Propagated(c, op, type) ==
    /\ calls[c].op = op
    /\ calls[c].pc = "propagate"
    /\ calls[c].msg.type = type
    /\ calls[c].pending = {}
    /\ ~crashed[calls[c].server]

\* AddIdentity, lines 60-81: the two skipchain requests and the start of
\* the propagation of the new storage.  One identity is modelled: a later
\* AddIdentity, on any server, is one whose genesis data block, and with it
\* the ID, is the one the identity has.
AddIdentity(c, s, cfg) ==
    /\ CanStart(c, s)
    /\ IF ledger = << >>
       THEN /\ s = FirstServer
            /\ UNCHANGED started
       ELSE /\ ledger[1] = GenesisBlock(cfg)
            /\ started < MaxCalls
            /\ started' = started + 1
    /\ \/ /\ last' = Reply("AddIdentity", "LedgerError", 0, NilConfig)
          /\ UNCHANGED <<ledger, calls>>
       \/ /\ ledger' = IF ledger = << >> THEN << GenesisBlock(cfg) >>
                                          ELSE ledger
          /\ \/ /\ calls' = [calls EXCEPT ![c] =
                       Propagating("AddIdentity", s,
                                   PropagateIdentity(cfg, 1, started'))]
                /\ UNCHANGED last
             \/ /\ last' = PropagateError("AddIdentity")
                /\ UNCHANGED calls
    /\ UNCHANGED <<identities, orphans, locked, crashed, lost, known>>

\* AddIdentity, lines 82-92
AddIdentityReturn(c) ==
    /\ Propagated(c, "AddIdentity", "PropagateIdentity")
    /\ last' = Reply("AddIdentity", "ok", calls[c].msg.Latest, NilConfig)
    /\ calls' = [calls EXCEPT ![c] = IdleCall]
    /\ known' = TRUE
    /\ UNCHANGED <<identities, orphans, locked, crashed, ledger, started, lost>>

\* the handler of a request has the storage of server s and is about to
\* take its mutex
Locking(op, s, msg) ==
    [IdleCall EXCEPT !.op = op, !.server = s, !.pc = "lock", !.msg = msg]

\* the storage the handler of call c holds since its lookup (lines 97, 130
\* and 147)
Sid(c) ==
    IF calls[c].old THEN orphans[calls[c].server]
    ELSE identities[calls[c].server]

\* the mutex of the storage the handler of call c holds is held
SidLocked(c) ==
    IF calls[c].old THEN locked[calls[c].server].old
    ELSE locked[calls[c].server].cur

\* the handler of call c, a request op, is about to run the step named pc
Running(c, op, pc) ==
    /\ calls[c].op = op
    /\ calls[c].pc = pc
    /\ ~crashed[calls[c].server]

\* ConfigUpdate, lines 96-100: the lookup of the storage
ConfigUpdate(c, s) ==
    /\ CanRequest(c, s)
    /\ started' = started + 1
    /\ IF ~identities[s].has
       THEN /\ last' = Reply("ConfigUpdate", "NotFound", 0, NilConfig)
            /\ UNCHANGED calls
       ELSE /\ calls' = [calls EXCEPT ![c] = Locking("ConfigUpdate", s, NoMsg)]
            /\ UNCHANGED last
    /\ UNCHANGED <<identities, orphans, locked, crashed, ledger, lost, known>>

\* ConfigUpdate, lines 101-106: sid.Lock(), the read of sid.Latest and the
\* deferred sid.Unlock()
ConfigUpdateReturn(c) ==
    /\ Running(c, "ConfigUpdate", "lock")
    /\ ~SidLocked(c)
    /\ last' = Reply("ConfigUpdate", "ok", 0, Sid(c).Latest)
    /\ calls' = [calls EXCEPT ![c] = IdleCall]
    /\ UNCHANGED <<identities, orphans, locked, crashed, ledger, started,
                   lost, known>>

\* ProposeFetch, lines 129-133: the lookup of the storage
ProposeFetch(c, s) ==
    /\ CanRequest(c, s)
    /\ started' = started + 1
    /\ IF ~identities[s].has
       THEN /\ last' = Reply("ProposeFetch", "NotFound", 0, NilConfig)
            /\ UNCHANGED calls
       ELSE /\ calls' = [calls EXCEPT ![c] = Locking("ProposeFetch", s, NoMsg)]
            /\ UNCHANGED last
    /\ UNCHANGED <<identities, orphans, locked, crashed, ledger, lost, known>>

\* ProposeFetch, lines 134-139: sid.Lock(), the read of sid.Proposed and the
\* deferred sid.Unlock()
ProposeFetchReturn(c) ==
    /\ Running(c, "ProposeFetch", "lock")
    /\ ~SidLocked(c)
    /\ last' = Reply("ProposeFetch", "ok", 0, Sid(c).Proposed)
    /\ calls' = [calls EXCEPT ![c] = IdleCall]
    /\ UNCHANGED <<identities, orphans, locked, crashed, ledger, started,
                   lost, known>>

\* ProposeSend, lines 111-118
ProposeSend(c, s, cfg) ==
    /\ CanRequest(c, s)
    /\ started' = started + 1
    /\ IF ~identities[s].has
       THEN /\ last' = Reply("ProposeSend", "NotFound", 0, NilConfig)
            /\ UNCHANGED calls
       ELSE \/ /\ calls' = [calls EXCEPT ![c] =
                      Propagating("ProposeSend", s,
                                  ProposeSendMsg(cfg, started + 1))]
               /\ UNCHANGED last
            \/ /\ last' = PropagateError("ProposeSend")
               /\ UNCHANGED calls
    /\ UNCHANGED <<identities, orphans, locked, crashed, ledger, lost, known>>

\* ProposeSend, lines 119-125
ProposeSendReturn(c) ==
    /\ Propagated(c, "ProposeSend", "ProposeSend")
    /\ last' = Reply("ProposeSend", "ok", 0, NilConfig)
    /\ calls' = [calls EXCEPT ![c] = IdleCall]
    /\ UNCHANGED <<identities, orphans, locked, crashed, ledger, started, lost, known>>

\* ProposeVote, lines 145-150: the lookup of the storage
ProposeVote(c, s, signer, sig) ==
    /\ CanRequest(c, s)
    /\ started' = started + 1
    /\ IF ~identities[s].has
       THEN /\ last' = Reply("ProposeVote", "NotFound", 0, NilConfig)
            /\ UNCHANGED calls
       ELSE /\ calls' = [calls EXCEPT ![c] =
                   Locking("ProposeVote", s, ProposeVoteMsg(signer, sig))]
            /\ UNCHANGED last
    /\ UNCHANGED <<identities, orphans, locked, crashed, ledger, lost, known>>

\* ProposeVote, lines 151-177: sid.Lock(), the validation and, when it
\* passes, sid.Unlock() and the start of the vote's propagation round.  Every
\* error return leaves the mutex of the storage held; the dereference of a
\* nil sid.Proposed panics.
ProposeVoteValidate(c) ==
    /\ Running(c, "ProposeVote", "lock")
    /\ ~SidLocked(c)
    /\ LET s == calls[c].server
           v == calls[c].msg
           outcome == Validate(Sid(c), v.Signer, v.Signature)
       IN IF outcome = "ok"
          THEN /\ calls' = [calls EXCEPT ![c] =
                      [Propagating("ProposeVote", s, v)
                         EXCEPT !.old = calls[c].old]]
               /\ UNCHANGED <<last, locked, crashed>>
          ELSE /\ last' = Reply("ProposeVote", outcome, 0, NilConfig)
               /\ locked' = [locked EXCEPT ![s] =
                                IF calls[c].old THEN [@ EXCEPT !.old = TRUE]
                                ELSE [@ EXCEPT !.cur = TRUE]]
               /\ crashed' = [crashed EXCEPT ![s] = (outcome = "panic")]
               /\ calls' = [calls EXCEPT ![c] = IdleCall]
    /\ UNCHANGED <<identities, orphans, ledger, started, lost, known>>

\* ProposeVote, lines 177-180: PropagateStartAndWait returns an error, the
\* round never having started
ProposeVoteError(c) ==
    /\ Running(c, "ProposeVote", "propagate")
    /\ calls[c].msg.type = "ProposeVote"
    /\ calls[c].pending = Servers
    /\ calls[c].found = {}
    /\ calls[c].mid = {}
    /\ last' = PropagateError("ProposeVote")
    /\ calls' = [calls EXCEPT ![c] = IdleCall]
    /\ UNCHANGED <<identities, orphans, locked, crashed, ledger, started,
                   lost, known>>

\* ProposeVote, line 181: len(sid.Votes) is read.  The reads of lines
\* 181-189 are made without the lock, one after the other, while Propagate
\* writes the same fields.
ProposeVoteLen(c) ==
    /\ Propagated(c, "ProposeVote", "ProposeVote")
    /\ calls' = [calls EXCEPT ![c].pc = "threshold",
                              ![c].n = LenVotes(Sid(c).Votes)]
    /\ UNCHANGED <<identities, orphans, locked, crashed, ledger, started,
                   last, lost, known>>

\* ProposeVote, line 181: sid.Latest is read and its Threshold compared
ProposeVoteCheck(c) ==
    /\ Running(c, "ProposeVote", "threshold")
    /\ calls' = [calls EXCEPT ![c] =
                    IF MeetsThreshold(calls[c].n, Sid(c).Latest)
                    THEN [@ EXCEPT !.pc = "log", !.n = 0]
                    ELSE [@ EXCEPT !.pc = "len", !.latest = Sid(c).Latest]]
    /\ UNCHANGED <<identities, orphans, locked, crashed, ledger, started,
                   last, lost, known>>

\* ProposeVote, line 182: len(sid.Votes).  Nothing orders the two tests, so
\* the value may be read again or be the one line 181 read.
ProposeVoteLenAll(c) ==
    /\ Running(c, "ProposeVote", "len")
    /\ \E n \in {calls[c].n, LenVotes(Sid(c).Votes)} :
          calls' = [calls EXCEPT ![c].pc = "devices", ![c].n = n]
    /\ UNCHANGED <<identities, orphans, locked, crashed, ledger, started,
                   last, lost, known>>

\* ProposeVote, lines 182 and 206: len(sid.Latest.Device), of the config
\* read again or of the one line 181 read, is compared; without quorum the
\* call returns nil, nil
ProposeVoteCheckAll(c) ==
    /\ Running(c, "ProposeVote", "devices")
    /\ \E latest \in {calls[c].latest, Sid(c).Latest} :
          IF AllVoted(calls[c].n, latest)
          THEN /\ calls' = [calls EXCEPT ![c].pc = "log", ![c].n = 0,
                                         ![c].latest = NilConfig]
               /\ UNCHANGED last
          ELSE /\ last' = Reply("ProposeVote", "empty", 0, NilConfig)
               /\ calls' = [calls EXCEPT ![c] = IdleCall]
    /\ UNCHANGED <<identities, orphans, locked, crashed, ledger, started,
                   lost, known>>

\* ProposeVote, line 188: sid.Proposed.Device is evaluated for the log
ProposeVoteLog(c) ==
    /\ Running(c, "ProposeVote", "log")
    /\ IF Sid(c).Proposed = NilConfig
       THEN /\ last' = Reply("ProposeVote", "panic", 0, NilConfig)
            /\ calls' = [calls EXCEPT ![c] = IdleCall]
            /\ crashed' = [crashed EXCEPT ![calls[c].server] = TRUE]
       ELSE /\ calls' = [calls EXCEPT ![c].pc = "data"]
            /\ UNCHANGED <<last, crashed>>
    /\ UNCHANGED <<identities, orphans, locked, ledger, started, lost, known>>

\* ProposeVote, line 189: the argument sid.Data is read
ProposeVoteData(c) ==
    /\ Running(c, "ProposeVote", "data")
    /\ calls' = [calls EXCEPT ![c].pc = "proposed", ![c].data = Sid(c).Data]
    /\ UNCHANGED <<identities, orphans, locked, crashed, ledger, started,
                   last, lost, known>>

\* ProposeVote, line 189: the argument sid.Proposed is read and the request
\* is sent to the skipchain
ProposeVoteProposed(c) ==
    /\ Running(c, "ProposeVote", "proposed")
    /\ calls' = [calls EXCEPT ![c].pc = "append",
                              ![c].proposed = Sid(c).Proposed,
                              ![c].round = Sid(c).Round]
    /\ UNCHANGED <<identities, orphans, locked, crashed, ledger, started,
                   last, lost, known>>

\* ProposeVoteAppend that ignores the error of ProposeData and propagates
\* the block it named as predecessor
ProposeVoteAppend_IgnoreError(c) ==
    /\ Running(c, "ProposeVote", "append")
    /\ \/ /\ calls' = [calls EXCEPT ![c] =
                 [Propagating("ProposeVote", calls[c].server,
                              UpdateSkipBlock(calls[c].data))
                    EXCEPT !.old = calls[c].old]]
          /\ UNCHANGED ledger
       \/ /\ calls[c].proposed # NilConfig
          /\ ledger' = Append(ledger, ProposeData(calls[c].data,
                                  calls[c].proposed, calls[c].round))
          /\ calls' = [calls EXCEPT ![c] =
                 [Propagating("ProposeVote", calls[c].server,
                              UpdateSkipBlock(Len(ledger) + 1))
                    EXCEPT !.old = calls[c].old]]
    /\ UNCHANGED <<identities, orphans, locked, crashed, started, last,
                   lost, known>>

\* ProposeVote, lines 189-198: the skipchain answers the request, with an
\* error (always so for a nil config, which it cannot encode) or with the
\* block it appended; with the block the handler goes on to the propagation
\* of line 199, which no roster member has received yet
ProposeVoteAppend(c) ==
    /\ Running(c, "ProposeVote", "append")
    /\ \/ /\ last' = Reply("ProposeVote", "LedgerError", 0, NilConfig)
          /\ calls' = [calls EXCEPT ![c] = IdleCall]
          /\ UNCHANGED ledger
       \/ /\ calls[c].proposed # NilConfig
          /\ ledger' = Append(ledger, ProposeData(calls[c].data,
                                  calls[c].proposed, calls[c].round))
          /\ calls' = [calls EXCEPT ![c] =
                 [Propagating("ProposeVote", calls[c].server,
                              UpdateSkipBlock(Len(ledger) + 1))
                    EXCEPT !.old = calls[c].old]]
          /\ UNCHANGED last
    /\ UNCHANGED <<identities, orphans, locked, crashed, started, lost, known>>

\* ProposeVote, lines 199-203: PropagateStartAndWait returns an error, the
\* round never having started; the block stays appended
ProposeVoteUpdateError(c) ==
    /\ Running(c, "ProposeVote", "propagate")
    /\ calls[c].msg.type = "UpdateSkipBlock"
    /\ calls[c].pending = Servers
    /\ calls[c].found = {}
    /\ calls[c].mid = {}
    /\ last' = PropagateError("ProposeVote")
    /\ calls' = [calls EXCEPT ![c] = IdleCall]
    /\ UNCHANGED <<identities, orphans, locked, crashed, ledger, started,
                   lost, known>>

\* ProposeVote, line 204: return sid.Data
ProposeVoteReturn(c) ==
    /\ Propagated(c, "ProposeVote", "UpdateSkipBlock")
    /\ last' = Reply("ProposeVote", "committed", Sid(c).Data, NilConfig)
    /\ calls' = [calls EXCEPT ![c] = IdleCall]
    /\ UNCHANGED <<identities, orphans, locked, crashed, ledger, started,
                   lost, known>>

(* ----------------------- propagation rounds --------------------------- *)

\* the initiating server applies the message itself before it sends it on
LocalFirst(c, r) ==
    r = calls[c].server \/ calls[c].server \notin calls[c].pending

\* the call no longer waits for member r, which has acknowledged
Acknowledged(call, r) ==
    [call EXCEPT !.pending = @ \ {r}, !.replies = @ + 1,
                 !.found = @ \ {r}, !.mid = @ \ {r}, !.midold = @ \ {r}]

\* the handler of member r has panicked: the call no longer waits for it
Panicked(call, r) ==
    [call EXCEPT !.pending = @ \ {r}, !.found = @ \ {r}, !.midold = @ \ {r}]

\* the storage the Propagate of member r for call c holds since line 248
Held(c, r) ==
    IF r \in calls[c].midold THEN orphans[r] ELSE identities[r]

\* the mutex of the storage the Propagate of member r for call c holds is
\* held
HeldLocked(c, r) ==
    IF r \in calls[c].midold THEN locked[r].old ELSE locked[r].cur

\* member r has not begun to handle the message of call c
Pending(c, r) ==
    /\ calls[c].pc = "propagate"
    /\ r \in calls[c].pending \ (calls[c].found \cup calls[c].mid)
    /\ LocalFirst(c, r)

\* one roster member receives a message of call c that names the identity
\* and looks its storage up, lines 225-252: without storage the handler
\* logs and returns
DeliverLookup(c, r) ==
    /\ Pending(c, r)
    /\ calls[c].msg.type # "PropagateIdentity"
    /\ ~crashed[r]
    /\ calls' = [calls EXCEPT ![c] =
                    IF identities[r].has THEN [@ EXCEPT !.found = @ \cup {r}]
                    ELSE Acknowledged(@, r)]
    /\ UNCHANGED <<identities, orphans, locked, crashed, ledger, started,
                   last, lost, known>>

\* member r runs Propagate for the message of call c up to its last
\* assignment.  For PropagateIdentity this is the test of line 238 on
\* s.identities.  For the other messages it is sid.Lock() and the
\* assignments of lines 253-276 on the storage found at line 248, which
\* line 243 may have replaced in s.identities since.  A member that panics
\* acknowledges nothing.  The assignments of lines 258-259 and of lines
\* 275-276 are made in one step each: they are made under the lock, and the
\* unlocked reads of ProposeVote take Votes and Latest before Proposed and
\* Data, so no read tells the two assignments of a pair apart.
Deliver(c, r) ==
    /\ ~crashed[r]
    /\ LET msg == calls[c].msg
           sid == Held(c, r)
           onOld == r \in calls[c].midold
       IN IF msg.type = "PropagateIdentity"
          THEN /\ Pending(c, r)
               /\ calls' = [calls EXCEPT ![c] =
                     IF TwoSteps(identities[r], msg)
                     THEN [@ EXCEPT !.mid = @ \cup {r}]
                     ELSE [Acknowledged(@, r) EXCEPT !.dup = TRUE]]
               /\ identities' = [identities EXCEPT ![r] = Propagate(@, msg)]
               /\ UNCHANGED <<orphans, locked, crashed>>
          ELSE /\ calls[c].pc = "propagate"
               /\ r \in calls[c].found
               /\ ~HeldLocked(c, r)
               /\ IF PropagatePanics(sid, msg)
                  THEN /\ crashed' = [crashed EXCEPT ![r] = TRUE]
                       /\ calls' = [calls EXCEPT ![c] = Panicked(@, r)]
                       /\ UNCHANGED <<identities, orphans, locked>>
                  ELSE /\ identities' =
                            IF onOld THEN identities
                            ELSE [identities EXCEPT ![r] = Propagate(@, msg)]
                       /\ orphans' =
                            IF onOld
                            THEN [orphans EXCEPT ![r] = Propagate(@, msg)]
                            ELSE orphans
                       /\ IF TwoSteps(sid, msg)
                          THEN /\ calls' = [calls EXCEPT
                                              ![c].found = @ \ {r},
                                              ![c].mid = @ \cup {r}]
                               /\ locked' = [locked EXCEPT ![r] =
                                     IF onOld THEN [@ EXCEPT !.old = TRUE]
                                     ELSE [@ EXCEPT !.cur = TRUE]]
                          ELSE /\ calls' = [calls EXCEPT ![c] =
                                              Acknowledged(@, r)]
                               /\ UNCHANGED locked
                       /\ UNCHANGED crashed
    /\ UNCHANGED <<ledger, started, last, lost, known>>

\* what the replacement of server r's storage means for another call: a
\* request handler on r that has looked its storage up, and a Propagate on
\* r between line 248 and its return, keep the storage they hold
Detached(call, r) ==
    [call EXCEPT
        !.old = @ \/ (call.server = r
                        /\ call.op \in {"ConfigUpdate", "ProposeFetch",
                                        "ProposeVote"}),
        !.midold = @ \cup IF call.msg.type = "PropagateIdentity" THEN {}
                          ELSE (call.found \cup call.mid) \cap {r}]

\* member r makes the last assignment of its Propagate for call c: line 243
\* stores the new identity, replacing a storage installed since line 238;
\* line 277 clears Proposed of the storage found at line 248 and the
\* deferred Unlock runs
DeliverEnd(c, r) ==
    /\ calls[c].pc = "propagate"
    /\ r \in calls[c].mid
    /\ ~crashed[r]
    /\ LET msg == calls[c].msg
           onOld == r \in calls[c].midold
           replaces == msg.type = "PropagateIdentity" /\ identities[r].has
       IN /\ identities' = IF onOld THEN identities
                           ELSE [identities EXCEPT ![r] = PropagateEnd(@, msg)]
          /\ orphans' = IF onOld
                        THEN [orphans EXCEPT ![r] = PropagateEnd(@, msg)]
                        ELSE IF replaces
                        THEN [orphans EXCEPT ![r] = identities[r]]
                        ELSE orphans
          /\ locked' = IF onOld
                       THEN [locked EXCEPT ![r].old = FALSE]
                       ELSE IF replaces
                       THEN [locked EXCEPT ![r] = [cur |-> FALSE,
                                                   old |-> locked[r].cur]]
                       ELSE IF msg.type = "PropagateIdentity" THEN locked
                       ELSE [locked EXCEPT ![r].cur = FALSE]
          /\ calls' = [d \in Slots |->
                         IF d = c THEN Acknowledged(calls[c], r)
                         ELSE IF replaces THEN Detached(calls[d], r)
                         ELSE calls[d]]
    /\ UNCHANGED <<crashed, ledger, started, last, lost, known>>

\* the wait for one member's acknowledgement expires: the member never
\* applies the message
Timeout(c, r) ==
    /\ Pending(c, r)
    /\ r # calls[c].server
    /\ lost < MaxTimeouts
    /\ calls' = [calls EXCEPT ![c].pending = @ \ {r}]
    /\ lost' = lost + 1
    /\ UNCHANGED <<identities, orphans, locked, crashed, ledger, started,
                   last, known>>

(* ---------------------------- signatures offered ---------------------- *)

\* the signatures a client may send with a vote in the name of signer
Signatures(signer) ==
    {NilSig} \cup {Sign(signer, Hash(cfg)) : cfg \in SignedConfigs}

Next ==
    \/ \E c \in Slots, s \in Servers, cfg \in Configs : AddIdentity(c, s, cfg)
    \/ \E c \in Slots : AddIdentityReturn(c)
    \/ \E c \in Slots, s \in Servers : ConfigUpdate(c, s)
    \/ \E c \in Slots : ConfigUpdateReturn(c)
    \/ \E c \in Slots, s \in Servers : ProposeFetch(c, s)
    \/ \E c \in Slots : ProposeFetchReturn(c)
    \/ \E c \in Slots, s \in Servers, cfg \in Proposals : ProposeSend(c, s, cfg)
    \/ \E c \in Slots : ProposeSendReturn(c)
    \/ \E c \in Slots, s \in Servers, signer \in DeviceNames :
          \E sig \in Signatures(signer) : ProposeVote(c, s, signer, sig)
    \/ \E c \in Slots : ProposeVoteValidate(c)
    \/ \E c \in Slots : ProposeVoteError(c)
    \/ \E c \in Slots : ProposeVoteLen(c)
    \/ \E c \in Slots : ProposeVoteCheck(c)
    \/ \E c \in Slots : ProposeVoteLenAll(c)
    \/ \E c \in Slots : ProposeVoteCheckAll(c)
    \/ \E c \in Slots : ProposeVoteLog(c)
    \/ \E c \in Slots : ProposeVoteData(c)
    \/ \E c \in Slots : ProposeVoteProposed(c)
    \/ \E c \in Slots : ProposeVoteAppend(c)
    \/ \E c \in Slots : ProposeVoteUpdateError(c)
    \/ \E c \in Slots : ProposeVoteReturn(c)
    \/ \E c \in Slots, r \in Servers : DeliverLookup(c, r)
    \/ \E c \in Slots, r \in Servers : Deliver(c, r)
    \/ \E c \in Slots, r \in Servers : DeliverEnd(c, r)
    \/ \E c \in Slots, r \in Servers : Timeout(c, r)

Spec == Init /\ [][Next]_vars

(* ====================== properties of the service ===================== *)

Quiescent == \A c \in Slots : calls[c].pc = "idle"

NoVotes(sid) == DOMAIN sid.Votes.sigs = {}

\* the handler of call c returns and no other call in progress changes
Returns(c) == calls' = [calls EXCEPT ![c] = IdleCall]

\* C1: one Proposed (one ProposeSend round) is appended to the data chain
\* at most once, whatever ProposeVote calls run and however they interleave.
C1_AppendOncePerProposed ==
    \A i, j \in DOMAIN ledger :
        (1 < i /\ i < j) => ledger[i].round # ledger[j].round

\* C2: after its vote was propagated, a ProposeVote call goes on to the
\* commit exactly if |Votes| >= Latest.threshold or |Votes| = |Latest.devices|
\* holds of its replica when the test of lines 181-182 is decided, and
\* returns empty otherwise; with a threshold above the device count the
\* commit needs as many votes as there are devices; nothing else appends.
C2_CommitIffQuorum ==
    [][ /\ \A c \in Slots :
            LET sid == Sid(c)
                votes == Cardinality(DOMAIN sid.Votes.sigs)
                devices == Cardinality(DOMAIN sid.Latest.Device)
                met == votes >= sid.Latest.Threshold \/ votes = devices
            IN /\ (ProposeVoteCheck(c) /\ calls'[c].pc = "log") => met
               /\ ProposeVoteCheckAll(c) =>
                     /\ met <=> calls'[c].pc = "log"
                     /\ ~met <=> /\ calls'[c].pc = "idle"
                                 /\ last'.result = "empty"
               /\ ( /\ ProposeVoteCheck(c) \/ ProposeVoteCheckAll(c)
                    /\ calls'[c].pc = "log"
                    /\ sid.Latest.Threshold > devices )
                  => votes = devices
        /\ (Len(ledger) > 0 /\ ledger' # ledger) =>
               \E c \in Slots : calls[c].op = "ProposeVote" /\ calls[c].pc = "append"
      ]_vars

\* C3: a vote in the name of a signer that is no device of Latest is
\* answered SignerUnknown and changes no replica and starts no propagation.
C3_UnknownSignerRejected ==
    [][ \A c \in Slots :
          ( /\ Running(c, "ProposeVote", "lock")
            /\ calls[c].msg.Signer \notin DOMAIN Sid(c).Latest.Device
            /\ ProposeVoteValidate(c) )
          => /\ last'.result = "SignerUnknown"
             /\ identities' = identities
             /\ orphans' = orphans
             /\ Returns(c)
      ]_vars

\* C4: a second vote of a device of Latest that already is a key of Votes of
\* the outstanding proposal is answered DuplicateVote; Votes and the rest of
\* every replica stay as they are and nothing is propagated.
C4_DuplicateVoteRejected ==
    [][ \A c \in Slots :
          ( /\ Running(c, "ProposeVote", "lock")
            /\ Sid(c).Proposed # NilConfig
            /\ calls[c].msg.Signer \in DOMAIN Sid(c).Latest.Device
            /\ calls[c].msg.Signer \in DOMAIN Sid(c).Votes.sigs
            /\ ProposeVoteValidate(c) )
          => /\ last' = Reply("ProposeVote", "DuplicateVote", 0, NilConfig)
             /\ identities' = identities
             /\ orphans' = orphans
             /\ Returns(c)
             /\ ledger' = ledger
      ]_vars

\* C4 witness: a repeated vote was answered DuplicateVote
C4_Witness ==
    /\ last.op = "ProposeVote"
    /\ last.result = "DuplicateVote"
    /\ \E s \in Servers : ~NoVotes(identities[s])

\* C5: a vote of a known signer while Proposed is empty is answered
\* NoProposal as an ordinary error: the server keeps running and no replica
\* changes.
C5_NoProposalIsAnError ==
    [][ \A c \in Slots :
          ( /\ Running(c, "ProposeVote", "lock")
            /\ calls[c].msg.Signer \in DOMAIN Sid(c).Latest.Device
            /\ Sid(c).Proposed = NilConfig
            /\ ProposeVoteValidate(c) )
          => /\ last'.result = "NoProposal"
             /\ crashed' = crashed
             /\ identities' = identities
             /\ orphans' = orphans
      ]_vars

\* C6: a vote of a known signer that has not voted yet, carrying a signature
\* that is not the signer's signature over the digest of Proposed, is
\* answered BadSignature; no replica, the chain and the calls in progress
\* stay as they are.
C6_BadSignatureRejected ==
    [][ \A c \in Slots :
          LET signer == calls[c].msg.Signer
              sig == calls[c].msg.Signature
          IN ( /\ Running(c, "ProposeVote", "lock")
               /\ Sid(c).Proposed # NilConfig
               /\ signer \in DOMAIN Sid(c).Latest.Device
               /\ signer \notin DOMAIN Sid(c).Votes.sigs
               /\ sig # NilSig
               /\ \/ sig.key # Sid(c).Latest.Device[signer]
                  \/ sig.hash # Hash(Sid(c).Proposed)
               /\ ProposeVoteValidate(c) )
             => /\ last' = Reply("ProposeVote", "BadSignature", 0, NilConfig)
                /\ identities' = identities
                /\ orphans' = orphans
                /\ Returns(c)
                /\ ledger' = ledger
      ]_vars

\* C6 witness: a vote was answered BadSignature
C6_Witness ==
    /\ last.op = "ProposeVote"
    /\ last.result = "BadSignature"

\* the votes of sid are all votes without a signature
AllNull(sid) ==
    /\ ~NoVotes(sid)
    /\ \A n \in DOMAIN sid.Votes.sigs : sid.Votes.sigs[n] = NilSig

\* C7: a vote without signature of a known signer that has not voted passes
\* validation unverified and is propagated; every replica whose Propagate
\* found the identity and goes on to the vote has the signer in its Votes
\* afterwards, without a signature; votes without signature are counted in
\* the length the quorum test reads like any other, a length that meets the
\* test leads to the commit, and the commit appends the Proposed the handler
\* read.
C7_NullVoteCounts ==
    [][ /\ \A c \in Slots :
            ( /\ Running(c, "ProposeVote", "lock")
              /\ Sid(c).Proposed # NilConfig
              /\ calls[c].msg.Signer \in DOMAIN Sid(c).Latest.Device
              /\ calls[c].msg.Signer \notin DOMAIN Sid(c).Votes.sigs
              /\ calls[c].msg.Signature = NilSig
              /\ ProposeVoteValidate(c) )
            => /\ calls'[c].pc = "propagate"
               /\ calls'[c].msg = calls[c].msg
               /\ calls'[c].pending = Servers
               /\ last' = last
        /\ \A c \in Slots, r \in Servers :
            ( /\ calls[c].msg.type = "ProposeVote"
              /\ calls[c].msg.Signature = NilSig
              /\ Deliver(c, r) )
            => /\ DOMAIN identities'[r].Votes.sigs =
                      DOMAIN identities[r].Votes.sigs \cup {calls[c].msg.Signer}
               /\ identities'[r].Votes.sigs[calls[c].msg.Signer] = NilSig
        /\ \A c \in Slots :
            LET sid == Sid(c)
            IN /\ (ProposeVoteLen(c) /\ AllNull(sid))
                  => calls'[c].n = Cardinality(DOMAIN sid.Votes.sigs)
               /\ ( /\ ProposeVoteCheck(c)
                    /\ calls[c].n >= sid.Latest.Threshold )
                  => calls'[c].pc = "log"
               /\ ( /\ ProposeVoteCheckAll(c)
                    /\ calls[c].n = Cardinality(DOMAIN sid.Latest.Device)
                    /\ calls[c].latest = sid.Latest )
                  => calls'[c].pc = "log"
               /\ (ProposeVoteAppend(c) /\ ledger' # ledger)
                  => /\ Len(ledger') = Len(ledger) + 1
                     /\ UnmarshalConfig(ledger'[Len(ledger')].data)
                           = calls[c].proposed
      ]_vars

\* C8: a replica that applies the committed block has Latest = the config in
\* the block, Proposed empty, Votes empty and Data = the block.
C8_InstallCommittedResets ==
    [][ \A c \in Slots, r \in Servers :
          ( /\ calls[c].msg.type = "UpdateSkipBlock"
            /\ r \notin calls[c].midold
            /\ DeliverEnd(c, r) )
          => /\ identities'[r].Latest =
                    UnmarshalConfig(ledger[calls[c].msg.Latest].data)
             /\ identities'[r].Proposed = NilConfig
             /\ NoVotes(identities'[r])
             /\ identities'[r].Data = calls[c].msg.Latest
      ]_vars

\* one proposal round ran, its block was propagated, and every message
\* reached every member
OneRoundDelivered ==
    /\ Quiescent
    /\ lost = 0
    /\ \A s \in Servers : ~crashed[s]
    /\ Len(ledger) >= 2
    /\ \E s \in Servers : identities[s].Data > 1
    /\ \A i \in DOMAIN ledger : i > 1 => ledger[i].round = ledger[2].round
    /\ \A s \in Servers : identities[s].Round = ledger[2].round

\* C9: after AddIdentity, one ProposeSend and the votes that reach quorum,
\* with every propagated message delivered, all replicas hold the committed
\* config as Latest; with threshold 1 and one device the call that reads
\* its recorded vote in Votes goes on to the commit.
C9_ReplicasConverge ==
    /\ [](OneRoundDelivered =>
             \A s \in Servers :
                 /\ identities[s].has
                 /\ identities[s].Latest = UnmarshalConfig(ledger[2].data))
    /\ [][ \A c \in Slots :
             LET sid == Sid(c)
             IN /\ ( /\ ProposeVoteLen(c)
                     /\ calls[c].msg.Signer \in DOMAIN sid.Votes.sigs )
                   => calls'[c].n >= 1
                /\ ( /\ ProposeVoteCheck(c)
                     /\ sid.Latest.Threshold = 1
                     /\ Cardinality(DOMAIN sid.Latest.Device) = 1
                     /\ calls[c].n >= 1 )
                   => calls'[c].pc = "log"
         ]_vars

\* C9 witness: the round is over, nothing was lost, and both replicas hold
\* the committed config, which is not the one the identity started with
C9_Witness ==
    /\ OneRoundDelivered
    /\ \A s \in Servers : identities[s].Latest = UnmarshalConfig(ledger[2].data)
    /\ ledger[2].data # ledger[1].data

\* C10: when the skipchain refuses the block, ProposeVote returns LedgerError,
\* propagates nothing, and every replica keeps Votes, Proposed, Latest and
\* Data as they were.
C10_LedgerErrorKeepsVotes ==
    [][ \A c \in Slots :
          ( /\ ProposeVoteAppend(c)
            /\ ledger' = ledger )
          => /\ last' = Reply("ProposeVote", "LedgerError", 0, NilConfig)
             /\ calls'[c] = IdleCall
             /\ identities' = identities
             /\ \A d \in Slots : d # c => calls'[d] = calls[d]
      ]_vars

\* C10 witness: a ProposeVote returned LedgerError while the votes and the
\* proposal of its round are still held
C10_Witness ==
    /\ last.op = "ProposeVote"
    /\ last.result = "LedgerError"
    /\ Len(ledger) = 1
    /\ \E s \in Servers :
          /\ identities[s].Proposed # NilConfig
          /\ ~NoVotes(identities[s])
          /\ Quorum(identities[s])

\* the propagation round of call c was acknowledged by fewer members than
\* the roster has
Shortfall(c) == calls[c].replies < Cardinality(Servers)

\* C11: a propagation round acknowledged by fewer than all roster members
\* makes none of AddIdentity, ProposeSend and ProposeVote fail; after the
\* append succeeded ProposeVote returns the block it appended as committed.
C11_ShortfallNeverFails ==
    [][ \A c \in Slots :
          /\ (AddIdentityReturn(c) /\ Shortfall(c))
                => last' = Reply("AddIdentity", "ok", 1, NilConfig)
          /\ (ProposeSendReturn(c) /\ Shortfall(c))
                => last' = Reply("ProposeSend", "ok", 0, NilConfig)
          /\ (ProposeVoteLen(c) /\ Shortfall(c))
                => calls'[c].pc = "threshold"
          /\ (ProposeVoteReturn(c) /\ Shortfall(c))
                => /\ last'.result = "committed"
                   /\ last'.ret = calls[c].msg.Latest
      ]_vars

\* C12: every ProposeData request of ProposeVote names as predecessor the
\* block that is the last of the identity's data chain when the request is
\* made, so the chain is one total order of appended blocks.
C12_AppendAfterLatestBlock ==
    [][ \A c \in Slots :
          ( /\ ProposeVoteAppend(c)
            /\ calls[c].proposed # NilConfig )
          => /\ calls[c].data = Len(ledger)
             /\ ledger' # ledger =>
                   ledger'[Len(ledger')].prev = Len(ledger)
      ]_vars

\* C13: a ProposeVote that commits returns the reference of the block its
\* own ProposeData request appended, never the block that was the replica's
\* Data before.
C13_ReturnsAppendedBlock ==
    [][ \A c \in Slots :
          ProposeVoteReturn(c)
            => /\ last'.result = "committed"
               /\ last'.ret = calls[c].msg.Latest
               /\ last'.ret # Block(calls[c].msg.Latest).prev
      ]_vars

\* C14: an AddIdentity whose PropagateIdentity met a roster member that held
\* the identity already fails with DuplicateIdentity.
C14_DuplicateIdentityFails ==
    [][ \A c \in Slots :
          (AddIdentityReturn(c) /\ calls[c].dup)
            => last'.result = "DuplicateIdentity"
      ]_vars

\* C15: a replica whose Propagate found the identity and goes on to the
\* ProposeSend has Proposed = the config of the message and an empty Votes
\* afterwards, with Latest and Data as before: none of the votes it held
\* counts any more.
C15_SetProposedResetsVotes ==
    [][ \A c \in Slots, r \in Servers :
          ( /\ calls[c].msg.type = "ProposeSend"
            /\ Deliver(c, r) )
          => /\ identities'[r].Proposed = calls[c].msg.Config
             /\ identities'[r].Votes = EmptyVotes
             /\ LenVotes(identities'[r].Votes) = 0
             /\ identities'[r].Latest = identities[r].Latest
             /\ identities'[r].Data = identities[r].Data
      ]_vars

\* C16: on every replica that holds the identity, applying UpdateSkipBlock
\* for a block of the chain a second time gives the storage the first
\* application gave.
C16_InstallCommittedIdempotent ==
    \A s \in Servers, b \in DOMAIN ledger :
        (identities[s].has /\ b > 1) =>
            LET usb == UpdateSkipBlock(b)
                once == PropagateEnd(Propagate(identities[s], usb), usb)
            IN PropagateEnd(Propagate(once, usb), usb) = once

\* C16 witness: a replica that held a proposal and votes has applied the
\* block of a commit, which changed its Latest and Data
C16_Witness ==
    \E c \in Slots, r \in Servers :
        /\ calls[c].pc = "propagate"
        /\ calls[c].msg.type = "UpdateSkipBlock"
        /\ r \notin calls[c].pending
        /\ lost = 0
        /\ ~crashed[r]
        /\ identities[r].Data = calls[c].msg.Latest
        /\ identities[r].Latest # UnmarshalConfig(ledger[1].data)
        /\ identities[r].Proposed = NilConfig
        /\ ~NoVotes(identities[r])

\* C17: PropagateIdentity applied on a replica that holds the identity
\* changes nothing of its storage, at the test of line 238 and at the store
\* of line 243, and no step makes a replica lose the identity it holds.
C17_InstallIdentityKeepsStore ==
    [][ /\ \A c \in Slots, r \in Servers :
            ( /\ calls[c].msg.type = "PropagateIdentity"
              /\ identities[r].has
              /\ Deliver(c, r) \/ DeliverEnd(c, r) )
            => identities'[r] = identities[r]
        /\ \A s \in Servers : identities[s].has => identities'[s].has
      ]_vars

\* C18: a replica records a vote only in the name of a device of the Latest
\* that the storage it records the vote in holds at that moment.
C18_VoteKeysAreDevices ==
    [][ \A c \in Slots, r \in Servers :
          ( /\ calls[c].msg.type = "ProposeVote"
            /\ ~Held(c, r).Votes.isnil
            /\ Deliver(c, r) )
          => calls[c].msg.Signer \in DOMAIN Held(c, r).Latest.Device
      ]_vars

\* C19: a ProposeVote that returns one of the errors SignerUnknown,
\* NoProposal, DuplicateVote, BadSignature leaves the storage mutex free.
C19_ErrorPathsUnlock ==
    [][ \A c \in Slots :
          ( /\ ProposeVoteValidate(c)
            /\ last'.op = "ProposeVote"
            /\ last'.result \in {"SignerUnknown", "NoProposal",
                                 "DuplicateVote", "BadSignature"}
            /\ Returns(c) )
          => /\ ~locked'[calls[c].server].cur
             /\ ~locked'[calls[c].server].old
      ]_vars

\* C20: when ProposeVote appends a config, every signed vote its replica
\* holds is a signature of a device of Latest over the digest of that
\* config.
C20_VotesForAppendedConfig ==
    [][ \A c \in Slots :
          LET sid == Sid(c)
          IN ( /\ ProposeVoteAppend(c)
               /\ ledger' # ledger )
             => \A n \in DOMAIN sid.Votes.sigs :
                   sid.Votes.sigs[n] # NilSig =>
                      /\ n \in DOMAIN sid.Latest.Device
                      /\ VerifySchnorr(sid.Latest.Device[n],
                             Hash(UnmarshalConfig(ledger'[Len(ledger')].data)),
                             sid.Votes.sigs[n])
      ]_vars

====
